---- MODULE Spec2Model ----
(***************************************************************************)
(* Model of the authentication service of auth-dashboard                  *)
(* (src/app/auth_service.py, src/app/models.py).                          *)
(*                                                                         *)
(* The two tables are the variables users and sessions; a row's primary   *)
(* key is its index.  Optional[T] values are sets with at most one        *)
(* element: None is {} and a present value x is {x}.  Time is counted in  *)
(* hours; datetime.utcnow() is the variable now.  The browsers are the     *)
(* variable clients: for each, its app.storage.user                        *)
(* (src/app/auth_middleware.py, src/app/login.py, src/app/dashboard.py).   *)
(***************************************************************************)
EXTENDS Integers, Sequences, FiniteSets, TLC

VARIABLES users, sessions, now, procs, clients

vars == <<users, sessions, now, procs, clients>>

----------------------------------------------------------------------------
(* Bounds of the model *)

MaxSessions == 2

(* how many times the clock advances *)
MaxTicks == 2

(* timedelta(hours=24) of create_session *)
SESSION_HOURS == 24

(* the clock advances by half a session lifetime at a time *)
TickStep == SESSION_HOURS \div 2

MaxTime == MaxTicks * TickStep

----------------------------------------------------------------------------
(* Optional values *)

None == {}

Some(x) == {x}

TheVal(opt) == CHOOSE x \in opt : TRUE

(* Python truthiness of an Optional[str]: None and "" are falsy *)
Falsy(tok) == tok = None \/ tok = Some("")

----------------------------------------------------------------------------
(* Input domains *)

Usernames == {"alice", "bob"}

(* the (username, email) pairs create_user is given: two that can coexist  *)
(* and one that shares its username with the first and its email with the  *)
(* second                                                                   *)
Registrations == {<<"alice", "a@x.com">>, <<"bob", "b@x.com">>, <<"alice", "b@x.com">>}

(* passwords given to create_user *)
Passwords == {"secret1"}

(* passwords given to authenticate_user: the right one and a wrong one *)
LoginPasswords == Passwords \cup {"wrong-password"}

Salts == {"5a17"}

(* the ids create_user can assign: one per username *)
UserIds == 1..Cardinality(Usernames)

(* the concurrent callers of the specification SpecConc *)
Procs == {"A", "B"}

(* the n-th value secrets.token_urlsafe(32) returns; no two are equal *)
TokenUrlsafe(n) == "tok" \o ToString(n)

Tokens == {TokenUrlsafe(n) : n \in 1..(MaxSessions + Cardinality(Procs))}

(* a string that is never issued as a token *)
GarbageToken == "garbage-token"

(* the arguments validate_session and logout_user can be given *)
TokenArgs == {None, Some("")} \cup {Some(t) : t \in Tokens \cup {GarbageToken}}

(* the arguments that differ in a state with session rows S: None, "", an  *)
(* unknown token and the tokens issued so far                               *)
HeldTokenArgs(S) ==
    {None, Some(""), Some(GarbageToken)} \cup {Some(S[i].session_token) : i \in DOMAIN S}

----------------------------------------------------------------------------
(* Password hashing.  A stored form is the sequence of its pieces, the     *)
(* separator ":" being a piece of its own; hex strings hold no ":".       *)

Sha256Hex(s) == "sha256(" \o s \o ")"

hash_password(password, salt) == <<salt, ":", Sha256Hex(password \o salt)>>

(* str.split(":"): the pieces between the separators *)
RECURSIVE SplitColon(_)
SplitColon(form) ==
    IF \A i \in DOMAIN form : form[i] # ":"
    THEN <<form>>
    ELSE LET k == CHOOSE i \in DOMAIN form :
                     form[i] = ":" /\ \A j \in 1..(i - 1) : form[j] # ":"
         IN <<SubSeq(form, 1, k - 1)>> \o SplitColon(SubSeq(form, k + 1, Len(form)))

(* the text of a run of pieces *)
RECURSIVE Join(_)
Join(pieces) == IF pieces = <<>> THEN "" ELSE Head(pieces) \o Join(Tail(pieces))

(* a verification that leaves the salt out of the digest *)
verify_password_NoSalt(password, password_hash) ==
    LET parts == SplitColon(password_hash)
    IN IF Len(parts) # 2
       THEN FALSE
       ELSE Join(parts[2]) = Sha256Hex(password)

(* a verification that reads the first two pieces and drops the rest *)
verify_password_FirstTwo(password, password_hash) ==
    LET parts == SplitColon(password_hash)
    IN IF Len(parts) < 2
       THEN FALSE
       ELSE Join(parts[2]) = Sha256Hex(password \o Join(parts[1]))

verify_password(password, password_hash) ==
    LET parts == SplitColon(password_hash)
    IN IF Len(parts) # 2
       THEN FALSE
       ELSE LET salt == Join(parts[1])
                stored_hash == Join(parts[2])
            IN stored_hash = Sha256Hex(password \o salt)

----------------------------------------------------------------------------
(* Rows and lookups *)

(* session.get(User, id) *)
GetUser(U, id) == IF id \in DOMAIN U THEN Some(U[id]) ELSE None

(* mutant: the existence check looks at the username only *)
ExistingUser_UsernameOnly(U, username, email) ==
    SelectSeq(U, LAMBDA u : u.username = username)

(* mutant: the existence check looks at the email only *)
ExistingUser_EmailOnly(U, username, email) ==
    SelectSeq(U, LAMBDA u : u.email = email)

(* select(User).where(username | email).first() of create_user *)
ExistingUser(U, username, email) ==
    SelectSeq(U, LAMBDA u : u.username = username \/ u.email = email)

(* select(User).where(User.username == username).first() *)
UserByUsername(U, username) ==
    LET rows == SelectSeq(U, LAMBDA u : u.username = username)
    IN IF rows = <<>> THEN None ELSE Some(Head(rows))

(* mutant: a new user starts logged in *)
NewUser_LoggedIn(U, username, email, password, salt) ==
    [id |-> Len(U) + 1,
     username |-> username,
     email |-> email,
     password_hash |-> hash_password(password, salt),
     is_active |-> TRUE,
     is_authenticated |-> TRUE,
     last_login |-> None]

NewUser(U, username, email, password, salt) ==
    [id |-> Len(U) + 1,
     username |-> username,
     email |-> email,
     password_hash |-> hash_password(password, salt),
     is_active |-> TRUE,
     is_authenticated |-> FALSE,
     last_login |-> None]

(* result of an operation: the value returned and the tables afterwards *)
Result(ret, U, S) == [ret |-> ret, users |-> U, sessions |-> S]

create_user(U, S, username, email, password, salt) ==
    IF ExistingUser(U, username, email) # <<>>
    THEN Result(None, U, S)
    ELSE LET user == NewUser(U, username, email, password, salt)
         IN Result(Some(user), Append(U, user), S)

(* mutant: the is_active check is missing *)
authenticate_user_InactiveAllowed(U, S, t, username, password) ==
    LET found == UserByUsername(U, username)
    IN IF found = None
       THEN Result(None, U, S)
       ELSE IF ~verify_password(password, TheVal(found).password_hash)
            THEN Result(None, U, S)
            ELSE LET user == [TheVal(found) EXCEPT !.last_login = Some(t),
                                                   !.is_authenticated = TRUE]
                 IN Result(Some(user), [U EXCEPT ![user.id] = user], S)

(* mutant: last_login is not updated *)
authenticate_user_NoLastLogin(U, S, t, username, password) ==
    LET found == UserByUsername(U, username)
    IN IF found = None \/ ~TheVal(found).is_active
       THEN Result(None, U, S)
       ELSE IF ~verify_password(password, TheVal(found).password_hash)
            THEN Result(None, U, S)
            ELSE LET user == [TheVal(found) EXCEPT !.is_authenticated = TRUE]
                 IN Result(Some(user), [U EXCEPT ![user.id] = user], S)

(* an authentication that stamps last_login on every attempt for a known,  *)
(* active user, the failed ones included                                    *)
authenticate_user_StampsAttempt(U, S, t, username, password) ==
    LET found == UserByUsername(U, username)
    IN IF found = None \/ ~TheVal(found).is_active
       THEN Result(None, U, S)
       ELSE IF ~verify_password(password, TheVal(found).password_hash)
            THEN Result(None, [U EXCEPT ![TheVal(found).id].last_login = Some(t)], S)
            ELSE LET user == [TheVal(found) EXCEPT !.last_login = Some(t),
                                                   !.is_authenticated = TRUE]
                 IN Result(Some(user), [U EXCEPT ![user.id] = user], S)

authenticate_user(U, S, t, username, password) ==
    LET found == UserByUsername(U, username)
    IN IF found = None \/ ~TheVal(found).is_active
       THEN Result(None, U, S)
       ELSE IF ~verify_password(password, TheVal(found).password_hash)
            THEN Result(None, U, S)
            ELSE LET user == [TheVal(found) EXCEPT !.last_login = Some(t),
                                                   !.is_authenticated = TRUE]
                 IN Result(Some(user), [U EXCEPT ![user.id] = user], S)

----------------------------------------------------------------------------
(* create_session, in the steps the code takes *)

(* a select that forgets the user: the active sessions of everyone *)
ActiveSessionIds_AllUsers(S, user_id) == {i \in DOMAIN S : S[i].is_active}

(* select(UserSession).where(user_id == user_id, is_active).all(): row ids *)
ActiveSessionIds(S, user_id) ==
    {i \in DOMAIN S : S[i].user_id = user_id /\ S[i].is_active}

(* mutant: the loop over existing_sessions is missing *)
DeactivateSessions_Skipped(S, ids) == S

(* the loop over existing_sessions, as written to the table at commit *)
DeactivateSessions(S, ids) ==
    [i \in DOMAIN S |-> IF i \in ids THEN [S[i] EXCEPT !.is_active = FALSE] ELSE S[i]]

NewSession(S, user_id, session_token, expires_at) ==
    [id |-> Len(S) + 1,
     user_id |-> user_id,
     session_token |-> session_token,
     expires_at |-> expires_at,
     is_active |-> TRUE]

(* mutant: the token generator repeats itself *)
FreshTokens_Repeated(S, P) == {TokenUrlsafe(1)}

(* secrets.token_urlsafe(32): a token no earlier call has returned, that is, *)
(* none of a stored row and none a call in progress (P) holds              *)
FreshTokens(S, P) ==
    LET used == {S[i].session_token : i \in DOMAIN S}
                    \cup {TheVal(P[p].pending).session_token :
                               p \in {q \in DOMAIN P : P[q].pending # None}}
        n == CHOOSE k \in 1..(Len(S) + Cardinality(DOMAIN P) + 1) :
                 /\ TokenUrlsafe(k) \notin used
                 /\ \A j \in 1..(k - 1) : TokenUrlsafe(j) \in used
    IN {TokenUrlsafe(n)}

(* a commit that reuses a row of the user instead of inserting one *)
CommitSession_Recycles(S, existing_sessions, user_id, session_token, expires_at) ==
    IF existing_sessions = {}
    THEN Append(S, NewSession(S, user_id, session_token, expires_at))
    ELSE LET i == CHOOSE k \in existing_sessions : \A j \in existing_sessions : j <= k
         IN [S EXCEPT ![i] = [@ EXCEPT !.session_token = session_token,
                                       !.expires_at = expires_at]]

(* lines 87-97: the rows read are written inactive and the new row inserted *)
CommitSession(S, existing_sessions, user_id, session_token, expires_at) ==
    LET S1 == DeactivateSessions(S, existing_sessions)
    IN Append(S1, NewSession(S1, user_id, session_token, expires_at))

(* a create_session that leaves the user's earlier sessions active *)
create_session_KeepsOld(U, S, t, user_id, session_token) ==
    LET S1 == CommitSession(S, {}, user_id, session_token, t + SESSION_HOURS)
    IN Result(Some(S1[Len(S1)]), U, S1)

(* a session whose horizon is counted from the epoch, not from the call *)
create_session_FromEpoch(U, S, t, user_id, session_token) ==
    LET existing_sessions == ActiveSessionIds(S, user_id)
        S1 == CommitSession(S, existing_sessions, user_id, session_token,
                            SESSION_HOURS)
    IN Result(Some(S1[Len(S1)]), U, S1)

create_session(U, S, t, user_id, session_token) ==
    LET existing_sessions == ActiveSessionIds(S, user_id)
        S1 == CommitSession(S, existing_sessions, user_id, session_token,
                            t + SESSION_HOURS)
    IN Result(Some(S1[Len(S1)]), U, S1)

(* lines 152-155 *)
get_user_by_id(U, S, user_id) == Result(GetUser(U, user_id), U, S)

(* the lower-case form of the usernames asked for *)
Lower(text) == CASE text = "Alice" -> "alice" [] OTHER -> text

(* a lookup that compares the usernames without their case *)
get_user_by_username_IgnoresCase(U, S, username) ==
    LET rows == SelectSeq(U, LAMBDA u : Lower(u.username) = Lower(username))
    IN Result(IF rows = <<>> THEN None ELSE Some(Head(rows)), U, S)

(* lines 158-161 *)
get_user_by_username(U, S, username) == Result(UserByUsername(U, username), U, S)

----------------------------------------------------------------------------
(* validate_session and logout_user *)

(* mutant: a session is still taken at the instant it expires *)
ValidTarget_AtExpiry(S, t, session_token) ==
    LET rows == SelectSeq(S, LAMBDA r :
                    /\ r.session_token = TheVal(session_token)
                    /\ r.is_active
                    /\ r.expires_at >= t)
    IN IF rows = <<>> THEN None ELSE Some(Head(rows))

(* mutant: the select forgets expires_at *)
ValidTarget_NoExpiry(S, t, session_token) ==
    LET rows == SelectSeq(S, LAMBDA r :
                    r.session_token = TheVal(session_token) /\ r.is_active)
    IN IF rows = <<>> THEN None ELSE Some(Head(rows))

(* mutant: the select forgets the token *)
ValidTarget_AnyToken(S, t, session_token) ==
    LET rows == SelectSeq(S, LAMBDA r : r.is_active /\ r.expires_at > t)
    IN IF rows = <<>> THEN None ELSE Some(Head(rows))

(* lines 108-114: the first row with the token, is_active and not expired *)
ValidTarget(S, t, session_token) ==
    LET rows == SelectSeq(S, LAMBDA r :
                    /\ r.session_token = TheVal(session_token)
                    /\ r.is_active
                    /\ r.expires_at > t)
    IN IF rows = <<>> THEN None ELSE Some(Head(rows))

(* the owning user, taken without a look at its is_active *)
ValidUser_Unchecked(U, user_session) == GetUser(U, user_session.user_id)

(* lines 119-123: the owning user, when it exists and is active *)
ValidUser(U, user_session) ==
    LET user == GetUser(U, user_session.user_id)
    IN IF user = None \/ ~TheVal(user).is_active THEN None ELSE user

(* mutant: a successful validation extends the session (sliding expiry) *)
validate_session_Sliding(U, S, t, session_token) ==
    IF Falsy(session_token)
    THEN Result(None, U, S)
    ELSE LET user_session == ValidTarget(S, t, session_token)
         IN IF user_session = None
            THEN Result(None, U, S)
            ELSE Result(ValidUser(U, TheVal(user_session)), U,
                        [S EXCEPT ![TheVal(user_session).id].expires_at =
                                      t + SESSION_HOURS])

validate_session(U, S, t, session_token) ==
    IF Falsy(session_token)
    THEN Result(None, U, S)
    ELSE LET user_session == ValidTarget(S, t, session_token)
         IN IF user_session = None
            THEN Result(None, U, S)
            ELSE Result(ValidUser(U, TheVal(user_session)), U, S)

(* mutant: the select of logout_user forgets is_active *)
LogoutTarget_AnyRow(S, session_token) ==
    LET rows == SelectSeq(S, LAMBDA r : r.session_token = TheVal(session_token))
    IN IF rows = <<>> THEN None ELSE Some(Head(rows))

(* the select of logout_user: the first row with the token and is_active *)
LogoutTarget(S, session_token) ==
    LET rows == SelectSeq(S, LAMBDA r :
                    r.session_token = TheVal(session_token) /\ r.is_active)
    IN IF rows = <<>> THEN None ELSE Some(Head(rows))

(* mutant: logout_user only clears the user's flag *)
LogoutWrites_UserOnly(U, S, user_session, user) ==
    Result(TRUE,
           IF user # None
           THEN [U EXCEPT ![TheVal(user).id].is_authenticated = FALSE]
           ELSE U,
           S)

(* lines 139-149: what the commit of logout_user writes, the session row  *)
(* and, when session.get found one, its user                               *)
LogoutWrites(U, S, user_session, user) ==
    LET S1 == [S EXCEPT ![user_session.id].is_active = FALSE]
        U1 == IF user # None
              THEN [U EXCEPT ![TheVal(user).id].is_authenticated = FALSE]
              ELSE U
    IN Result(TRUE, U1, S1)

(* a logout that, finding no active row, still clears the flag of the      *)
(* owner of an ended row with the token                                     *)
logout_user_ClearsOwner(U, S, session_token) ==
    IF Falsy(session_token)
    THEN Result(FALSE, U, S)
    ELSE LET user_session == LogoutTarget(S, session_token)
             ended == {i \in DOMAIN S : S[i].session_token = TheVal(session_token)}
         IN IF user_session = None
            THEN Result(FALSE,
                        [id \in DOMAIN U |->
                           IF \E i \in ended : S[i].user_id = id
                           THEN [U[id] EXCEPT !.is_authenticated = FALSE]
                           ELSE U[id]],
                        S)
            ELSE LogoutWrites(U, S, TheVal(user_session),
                              GetUser(U, TheVal(user_session).user_id))

logout_user(U, S, session_token) ==
    IF Falsy(session_token)
    THEN Result(FALSE, U, S)
    ELSE LET user_session == LogoutTarget(S, session_token)
         IN IF user_session = None
            THEN Result(FALSE, U, S)
            ELSE LogoutWrites(U, S, TheVal(user_session),
                              GetUser(U, TheVal(user_session).user_id))

----------------------------------------------------------------------------
(* Specification Spec: every call is one atomic step *)

(* the browsers *)
Clients == {"c1", "c2"}

(* app.storage.user of one browser: the keys session_token and             *)
(* redirect_after_login, each absent (None) or holding a string            *)
Storage(session_token, redirect_after_login) ==
    [session_token |-> session_token, redirect_after_login |-> redirect_after_login]

EmptyStorage == Storage(None, None)

(* a caller: where it is in its call (pc), the call (op) and its argument *)
(* (user_id or token), the ids of the active sessions create_session has   *)
(* read (existing), the row and the user logout_user has read (target,     *)
(* user), the row create_session or create_user is about to insert          *)
(* (pending), the value logout_user returned (ok) and the user create_user *)
(* returned (user); for a hashing call pending holds the password and the   *)
(* stored form, ok the value verify_password returned                       *)
Proc(pc, op) ==
    [pc |-> pc, op |-> op, user_id |-> None, token |-> None, existing |-> None,
     target |-> None, user |-> None, pending |-> None, ok |-> None]

Idle == Proc("idle", "none")

Init ==
    /\ users = <<>>
    /\ sessions = <<>>
    /\ now = 0
    /\ procs = [p \in Procs |-> Idle]
    /\ clients = [c \in Clients |-> EmptyStorage]

CreateUser ==
    \E reg \in Registrations, password \in Passwords, salt \in Salts :
        /\ LET r == create_user(users, sessions, reg[1], reg[2], password, salt)
           IN users' = r.users /\ sessions' = r.sessions
        /\ UNCHANGED <<now, procs, clients>>

AuthenticateUser ==
    \E username \in Usernames, password \in LoginPasswords :
        /\ LET r == authenticate_user(users, sessions, now, username, password)
           IN users' = r.users /\ sessions' = r.sessions
        /\ UNCHANGED <<now, procs, clients>>

CreateSession ==
    \E user_id \in UserIds, session_token \in FreshTokens(sessions, procs) :
        /\ Len(sessions) < MaxSessions
        /\ LET r == create_session(users, sessions, now, user_id, session_token)
           IN users' = r.users /\ sessions' = r.sessions
        /\ UNCHANGED <<now, procs, clients>>

ValidateSession ==
    \E tok \in HeldTokenArgs(sessions) :
        /\ LET r == validate_session(users, sessions, now, tok)
           IN users' = r.users /\ sessions' = r.sessions
        /\ UNCHANGED <<now, procs, clients>>

LogoutUser ==
    \E tok \in HeldTokenArgs(sessions) :
        /\ LET r == logout_user(users, sessions, tok)
           IN users' = r.users /\ sessions' = r.sessions
        /\ UNCHANGED <<now, procs, clients>>

(* an administrative process that ends the sessions of the user it         *)
(* deactivates                                                              *)
SetUserActive_EndsSessions ==
    \E id \in DOMAIN users, b \in BOOLEAN :
        /\ users[id].is_active # b
        /\ users' = [users EXCEPT ![id].is_active = b]
        /\ sessions' = [i \in DOMAIN sessions |->
                           IF ~b /\ sessions[i].user_id = id
                           THEN [sessions[i] EXCEPT !.is_active = FALSE]
                           ELSE sessions[i]]
        /\ UNCHANGED <<now, procs, clients>>

(* the external administrative process that flips User.is_active *)
SetUserActive ==
    \E id \in DOMAIN users, b \in BOOLEAN :
        /\ users[id].is_active # b
        /\ users' = [users EXCEPT ![id].is_active = b]
        /\ UNCHANGED <<sessions, now, procs, clients>>

(* a clock with a sweep: the rows whose expires_at has passed are written  *)
(* inactive as the time advances                                            *)
Tick_Sweeps ==
    /\ now + TickStep <= MaxTime
    /\ now' = now + TickStep
    /\ sessions' = [i \in DOMAIN sessions |->
                       IF sessions[i].expires_at <= now + TickStep
                       THEN [sessions[i] EXCEPT !.is_active = FALSE]
                       ELSE sessions[i]]
    /\ UNCHANGED <<users, procs, clients>>

(* the clock advances *)
Tick ==
    /\ now + TickStep <= MaxTime
    /\ now' = now + TickStep
    /\ UNCHANGED <<users, sessions, procs, clients>>

Next ==
    \/ CreateUser
    \/ AuthenticateUser
    \/ CreateSession
    \/ ValidateSession
    \/ LogoutUser
    \/ SetUserActive
    \/ Tick

Spec == Init /\ [][Next]_vars

(* Specification SpecUsers: the calls that write the users table only *)
NextUsers ==
    \/ CreateUser
    \/ AuthenticateUser
    \/ SetUserActive
    \/ Tick

SpecUsers == Init /\ [][NextUsers]_vars

----------------------------------------------------------------------------
(* Properties of Spec *)

(* the user rows, and the rows of one user's sessions *)
UserRows == {users[i] : i \in DOMAIN users}

SessionsOf(uid) == {i \in DOMAIN sessions : sessions[i].user_id = uid}

TokenOf(i) == Some(sessions[i].session_token)

(* what validate_session returns in the current state *)
Validated(tok) == validate_session(users, sessions, now, tok).ret

(* C1: called as atomic steps in any order, create_user, authenticate_user, *)
(* create_session, validate_session and logout_user leave every user id     *)
(* with at most one session row whose is_active is true.                    *)
C1_AtMostOneActive ==
    \A uid \in {sessions[i].user_id : i \in DOMAIN sessions} \cup UserIds :
        Cardinality({i \in SessionsOf(uid) : sessions[i].is_active}) <= 1

(* a user with a superseded session and an active one *)
C1_Witness ==
    \E i, j \in DOMAIN sessions :
        /\ i < j
        /\ sessions[i].user_id = sessions[j].user_id
        /\ ~sessions[i].is_active
        /\ sessions[j].is_active

(* C3: for every non-empty token t, validate_session(t) returns the user u  *)
(* exactly when a session row has session_token = t, is_active = true,      *)
(* expires_at > now and user_id = u.id, where u exists and u.is_active;     *)
(* otherwise it returns None.                                               *)
C3_ValidateIff ==
    \A t \in Tokens \cup {GarbageToken} :
        Validated(Some(t)) =
            {u \in UserRows :
                /\ u.is_active
                /\ \E i \in DOMAIN sessions :
                       /\ sessions[i].session_token = t
                       /\ sessions[i].is_active
                       /\ sessions[i].expires_at > now
                       /\ sessions[i].user_id = u.id}

(* one token validates while another, still flagged active, has reached     *)
(* its expires_at exactly and validates to None                             *)
C3_Witness ==
    /\ \E i \in DOMAIN sessions : Validated(TokenOf(i)) # None
    /\ \E i \in DOMAIN sessions :
           /\ sessions[i].is_active
           /\ sessions[i].expires_at = now
           /\ Validated(TokenOf(i)) = None

(* C4: every create_session(u) returns a token that differs from the token  *)
(* of each earlier session of u; after it the earlier tokens of u validate  *)
(* to None and, when u exists and is active, the new token validates to u.  *)
(* (Two successive calls for an active user are the case of the claim.)     *)
C4_Supersede ==
    [][Len(sessions') = Len(sessions) + 1 =>
        LET new == sessions'[Len(sessions')]
            owner == GetUser(users', new.user_id)
        IN /\ \A i \in SessionsOf(new.user_id) :
                  /\ sessions[i].session_token # new.session_token
                  /\ validate_session(users', sessions', now', TokenOf(i)).ret = None
           /\ (owner # None /\ TheVal(owner).is_active) =>
                  validate_session(users', sessions', now',
                                   Some(new.session_token)).ret = owner]_vars

(* an active user after two create_session calls: the first token is dead,  *)
(* the second validates                                                     *)
C4_Witness ==
    \E i, j \in DOMAIN sessions :
        /\ i < j
        /\ sessions[i].user_id = sessions[j].user_id
        /\ sessions[i].session_token # sessions[j].session_token
        /\ Validated(TokenOf(i)) = None
        /\ Validated(TokenOf(j)) # None
        /\ TheVal(Validated(TokenOf(j))).id = sessions[j].user_id

(* C5: for every token t whose session row has is_active = true,            *)
(* logout_user(t) returns True and validate_session(t) then returns None;   *)
(* the token of an inactive row validates to None, and an inactive row      *)
(* keeps its token and stays inactive in every later state.                 *)
C5_LogoutEnds ==
    /\ [](\A i \in DOMAIN sessions :
             IF sessions[i].is_active
             THEN LET r == logout_user(users, sessions, TokenOf(i))
                  IN /\ r.ret = TRUE
                     /\ ~r.sessions[i].is_active
                     /\ validate_session(r.users, r.sessions, now, TokenOf(i)).ret = None
             ELSE Validated(TokenOf(i)) = None)
    /\ [][\A i \in DOMAIN sessions :
             ~sessions[i].is_active =>
                 /\ i \in DOMAIN sessions'
                 /\ sessions'[i].session_token = sessions[i].session_token
                 /\ ~sessions'[i].is_active]_vars

(* a session ended by logout_user (no later session of its user superseded *)
(* it) of a user who had logged in                                          *)
C5_Witness ==
    \E i \in DOMAIN sessions :
        /\ ~sessions[i].is_active
        /\ \A j \in SessionsOf(sessions[i].user_id) : j <= i
        /\ sessions[i].user_id \in DOMAIN users
        /\ users[sessions[i].user_id].last_login # None
        /\ ~users[sessions[i].user_id].is_authenticated
        /\ Validated(TokenOf(i)) = None

(* C6: logout_user(t) returns False and changes no row when t is None, t is *)
(* the empty string, t is the token of no row, or t is the token of a row   *)
(* whose is_active is false; a second logout_user(t) after a successful one *)
(* returns False.                                                           *)
C6_LogoutRefused ==
    \A tok \in TokenArgs :
        LET r == logout_user(users, sessions, tok)
        IN /\ (\/ Falsy(tok)
               \/ ~\E i \in DOMAIN sessions :
                      TokenOf(i) = tok /\ sessions[i].is_active)
                  => r = Result(FALSE, users, sessions)
           /\ r.ret = TRUE =>
                  logout_user(r.users, r.sessions, tok)
                      = Result(FALSE, r.users, r.sessions)

(* a logged-out session beside a live one: both cases of the claim *)
C6_Witness ==
    /\ \E i \in DOMAIN sessions :
           /\ ~sessions[i].is_active
           /\ \A j \in SessionsOf(sessions[i].user_id) : j <= i
    /\ \E i \in DOMAIN sessions : sessions[i].is_active

(* C8: for a token whose row has is_active = true and expires_at <= now,    *)
(* logout_user returns False and changes neither the session row nor the    *)
(* user's is_authenticated.                                                 *)
C8_ExpiredLogoutRefused ==
    \A i \in DOMAIN sessions :
        (sessions[i].is_active /\ sessions[i].expires_at <= now) =>
            logout_user(users, sessions, TokenOf(i)) = Result(FALSE, users, sessions)

(* C9: the token of a session whose is_active is false or whose expires_at  *)
(* the clock has reached validates to None, and such a session keeps its    *)
(* token and stays ended in every later state, whatever is called and       *)
(* however far the clock advances.                                          *)
Ended(s, t) == ~s.is_active \/ t >= s.expires_at

C9_Terminal ==
    /\ [](\A i \in DOMAIN sessions :
             Ended(sessions[i], now) => Validated(TokenOf(i)) = None)
    /\ [][\A i \in DOMAIN sessions :
             Ended(sessions[i], now) =>
                 /\ i \in DOMAIN sessions'
                 /\ sessions'[i].session_token = sessions[i].session_token
                 /\ Ended(sessions'[i], now')]_vars

(* an expired, superseded session of a logged-in user who holds a newer,   *)
(* valid session                                                            *)
C9_Witness ==
    \E i, j \in DOMAIN sessions :
        /\ i < j
        /\ sessions[i].user_id = sessions[j].user_id
        /\ ~sessions[i].is_active
        /\ now >= sessions[i].expires_at
        /\ Validated(TokenOf(j)) # None
        /\ TheVal(Validated(TokenOf(j))).is_authenticated

(* C10: validate_session leaves every user row and every session row as    *)
(* it was, for every token, whether it returns a user or None.              *)
C10_ValidateReadOnly ==
    \A tok \in TokenArgs :
        LET r == validate_session(users, sessions, now, tok)
        IN r.users = users /\ r.sessions = sessions

(* a token that validates to a user and a stored token that does not *)
C10_Witness ==
    /\ \E i \in DOMAIN sessions :
           /\ Validated(TokenOf(i)) # None
           /\ users[sessions[i].user_id].last_login # None
    /\ \E i \in DOMAIN sessions : Validated(TokenOf(i)) = None

(* the usernames and emails the calls are asked about: the registered ones *)
(* and one of each that is never registered                                 *)
AskedUsernames == Usernames \cup {"carol"}

AskedEmails == {reg[2] : reg \in Registrations} \cup {"c@x.com"}

UsernameTaken(username) == \E i \in DOMAIN users : users[i].username = username

EmailTaken(email) == \E i \in DOMAIN users : users[i].email = email

(* C11: validate_session returns None (it is defined, it does not fail) for *)
(* the token None, for the empty string and for every string that is the    *)
(* session_token of no stored session, in every state of the tables.        *)
C11_UnknownTokenNone ==
    \A tok \in TokenArgs :
        (Falsy(tok) \/ \A i \in DOMAIN sessions : TokenOf(i) # tok)
            => validate_session(users, sessions, now, tok)
                   = Result(None, users, sessions)

(* a stored token validates while another token has never been issued *)
C11_Witness ==
    /\ \E i \in DOMAIN sessions : Validated(TokenOf(i)) # None
    /\ \E t \in Tokens : \A i \in DOMAIN sessions : sessions[i].session_token # t

(* C12: no two distinct user rows share a username and no two share an      *)
(* email, in every state that create_user calls, run one at a time among    *)
(* logins, reach.                                                           *)
C12_UniqueIdentity ==
    \A i, j \in DOMAIN users :
        i # j => /\ users[i].username # users[j].username
                 /\ users[i].email # users[j].email

(* two users, and a registration that takes its username from one and its  *)
(* email from the other                                                     *)
C12_Witness ==
    /\ Len(users) = 2
    /\ \E reg \in Registrations :
           /\ UsernameTaken(reg[1])
           /\ EmailTaken(reg[2])
           /\ \A i \in DOMAIN users : <<users[i].username, users[i].email>> # reg

(* C14: create_user returns None and leaves both tables as they are when    *)
(* the username is taken, when the email is taken and when both are: the    *)
(* three cases give one and the same result.                                *)
C14_DuplicateUniform ==
    \A username \in AskedUsernames, email \in AskedEmails,
       password \in Passwords, salt \in Salts :
        (UsernameTaken(username) \/ EmailTaken(email))
            => create_user(users, sessions, username, email, password, salt)
                   = Result(None, users, sessions)

(* a state that offers the three cases: only the username taken, only the  *)
(* email taken, both taken                                                  *)
C14_Witness ==
    /\ \E username \in AskedUsernames, email \in AskedEmails :
           UsernameTaken(username) /\ ~EmailTaken(email)
    /\ \E username \in AskedUsernames, email \in AskedEmails :
           ~UsernameTaken(username) /\ EmailTaken(email)
    /\ \E username \in AskedUsernames, email \in AskedEmails :
           /\ UsernameTaken(username)
           /\ EmailTaken(email)
           /\ \A i \in DOMAIN users :
                  users[i].username = username => users[i].email # email

(* C15: when neither the username nor the email is taken, create_user adds  *)
(* exactly one row, with an id no row had, is_active = true,                *)
(* is_authenticated = false and last_login unset, changes no other row,     *)
(* returns the new row, and get_user_by_username then returns it too.       *)
C15_CreateFresh ==
    \A username \in AskedUsernames, email \in AskedEmails,
       password \in Passwords, salt \in Salts :
        (~UsernameTaken(username) /\ ~EmailTaken(email)) =>
            LET r == create_user(users, sessions, username, email, password, salt)
                new == r.users[Len(r.users)]
            IN /\ Len(r.users) = Len(users) + 1
               /\ SubSeq(r.users, 1, Len(users)) = users
               /\ r.sessions = sessions
               /\ new.id \notin {users[i].id : i \in DOMAIN users}
               /\ new.id = Len(r.users)
               /\ new.username = username
               /\ new.email = email
               /\ new.is_active
               /\ ~new.is_authenticated
               /\ new.last_login = None
               /\ r.ret = Some(new)
               /\ get_user_by_username(r.users, r.sessions, username).ret = r.ret

(* a user created after another had logged in: the new row is not logged   *)
(* in and is the one its username finds                                     *)
C15_Witness ==
    /\ Len(users) = 2
    /\ users[1].is_authenticated
    /\ users[2].id = 2
    /\ users[2].is_active
    /\ ~users[2].is_authenticated
    /\ users[2].last_login = None
    /\ get_user_by_username(users, sessions, users[2].username).ret = Some(users[2])

(* the stored hash of u is a hash of password *)
IsPasswordOf(password, u) ==
    \E salt \in Salts : u.password_hash = hash_password(password, salt)

(* C16: authenticate_user returns None and leaves both tables as they are   *)
(* when no user has the username, when the user's is_active is false and    *)
(* when the password is not the user's: one result for the three cases.     *)
C16_FailureUniform ==
    [](\A username \in AskedUsernames, password \in LoginPasswords :
          LET found == {u \in UserRows : u.username = username}
          IN (\/ found = {}
              \/ \E u \in found : ~u.is_active
              \/ \E u \in found : ~IsPasswordOf(password, u))
                 => authenticate_user(users, sessions, now, username, password)
                        = Result(None, users, sessions))

(* an inactive user who had logged in beside an active one, a third        *)
(* username being unknown                                                   *)
C16_Witness ==
    /\ \E username \in AskedUsernames : ~UsernameTaken(username)
    /\ \E i, j \in DOMAIN users :
           /\ ~users[i].is_active
           /\ users[i].is_authenticated
           /\ users[j].is_active

(* C17: for an existing user with is_active = true and the user's own       *)
(* password, authenticate_user sets last_login to the current time and      *)
(* is_authenticated to true on that row, changes no other user row and no   *)
(* session row, and returns the updated row.                                *)
C17_LoginSuccess ==
    [](\A username \in AskedUsernames, password \in LoginPasswords :
          \A i \in DOMAIN users :
              (/\ users[i].username = username
               /\ users[i].is_active
               /\ IsPasswordOf(password, users[i])) =>
                  LET updated == [users[i] EXCEPT !.last_login = Some(now),
                                                  !.is_authenticated = TRUE]
                  IN authenticate_user(users, sessions, now, username, password)
                         = Result(Some(updated), [users EXCEPT ![i] = updated],
                                  sessions))

(* a user who logged in after the clock had advanced, beside a user who    *)
(* never logged in                                                          *)
C17_Witness ==
    \E i, j \in DOMAIN users :
        /\ now > 0
        /\ users[i].last_login = Some(now)
        /\ users[i].is_authenticated
        /\ users[j].last_login = None
        /\ ~users[j].is_authenticated

(* u has a session that validates *)
HasValidSession(u) ==
    /\ u.is_active
    /\ \E i \in SessionsOf(u.id) :
           sessions[i].is_active /\ sessions[i].expires_at > now

(* C18: in every reachable state a user's is_authenticated is true exactly  *)
(* when the user has a valid session (an is_active, unexpired session row   *)
(* of an active user).                                                      *)
C18_FlagMeansValidSession ==
    \A u \in UserRows : u.is_authenticated <=> HasValidSession(u)

----------------------------------------------------------------------------
(* Specification SpecConc: callers run concurrently.  Each statement that  *)
(* reaches the database (a select, a session.get, a commit) is one step;   *)
(* a select reads the committed tables, and what a call has changed is      *)
(* written to the tables by its session.commit().                           *)

(* session rows the calls in progress are about to insert *)
InFlight(P) == Cardinality({p \in DOMAIN P : P[p].pc \in {"cs_selected", "cs_pending"}})

(* the tokens the concurrent callers hold: the issued ones *)
ConcTokenArgs(S) == {Some(S[i].session_token) : i \in DOMAIN S}

Ready(p) == procs[p].pc \in {"idle", "done"}

(* create_session, lines 83-85: the select of the active sessions *)
CsSelect(p) ==
    \E user_id \in UserIds :
        /\ Ready(p)
        /\ Len(sessions) + InFlight(procs) < MaxSessions
        /\ procs' = [procs EXCEPT ![p] =
               [Proc("cs_selected", "create_session") EXCEPT
                    !.user_id = Some(user_id),
                    !.existing = ActiveSessionIds(sessions, user_id)]]
        /\ UNCHANGED <<users, sessions, now, clients>>

(* create_session, lines 87-96: the rows read are marked inactive and the  *)
(* new row is built, in the caller's memory                                 *)
CsPrepare(p) ==
    \E session_token \in FreshTokens(sessions, procs) :
        /\ procs[p].pc = "cs_selected"
        /\ procs' = [procs EXCEPT ![p].pc = "cs_pending",
                                  ![p].pending =
                                      Some([session_token |-> session_token,
                                            expires_at |-> now + SESSION_HOURS])]
        /\ UNCHANGED <<users, sessions, now, clients>>

(* create_session, lines 97-99: the commit *)
CsCommit(p) ==
    /\ procs[p].pc = "cs_pending"
    /\ LET new == TheVal(procs[p].pending)
           S1 == CommitSession(sessions, procs[p].existing, TheVal(procs[p].user_id),
                               new.session_token, new.expires_at)
       IN /\ sessions' = S1
          /\ procs' = [procs EXCEPT ![p] =
                 [Proc("done", "create_session") EXCEPT
                      !.user_id = procs[p].user_id]]
    /\ UNCHANGED <<users, now, clients>>

(* logout_user, lines 128-137: the select of the session to end *)
LoSelect(p) ==
    \E tok \in ConcTokenArgs(sessions) :
        /\ Ready(p)
        /\ LET target == IF Falsy(tok) THEN None ELSE LogoutTarget(sessions, tok)
           IN procs' = [procs EXCEPT ![p] =
                  IF target = None
                  THEN [Proc("done", "logout_user") EXCEPT !.ok = Some(FALSE)]
                  ELSE [Proc("lo_selected", "logout_user") EXCEPT
                            !.token = tok, !.target = target]]
        /\ UNCHANGED <<users, sessions, now, clients>>

(* mutant: the session row's change is committed on its own, before the  *)
(* user is loaded                                                           *)
LoGetUser_CommitsSession(p) ==
    /\ procs[p].pc = "lo_selected"
    /\ procs' = [procs EXCEPT ![p].pc = "lo_loaded",
                              ![p].user = GetUser(users, TheVal(procs[p].target).user_id)]
    /\ sessions' = [sessions EXCEPT ![TheVal(procs[p].target).id].is_active = FALSE]
    /\ UNCHANGED <<users, now, clients>>

(* logout_user, lines 139-146: session.get of the owning user *)
LoGetUser(p) ==
    /\ procs[p].pc = "lo_selected"
    /\ procs' = [procs EXCEPT ![p].pc = "lo_loaded",
                              ![p].user = GetUser(users, TheVal(procs[p].target).user_id)]
    /\ UNCHANGED <<users, sessions, now, clients>>

(* logout_user, lines 148-149: the commit *)
LoCommit(p) ==
    /\ procs[p].pc = "lo_loaded"
    /\ LET r == LogoutWrites(users, sessions, TheVal(procs[p].target), procs[p].user)
       IN /\ users' = r.users
          /\ sessions' = r.sessions
          /\ procs' = [procs EXCEPT ![p] =
                 [Proc("done", "logout_user") EXCEPT !.ok = Some(r.ret)]]
    /\ UNCHANGED <<now, clients>>

(* create_user and authenticate_user run here as one step each *)
NextConc ==
    \/ CreateUser
    \/ AuthenticateUser
    \/ \E p \in Procs : CsSelect(p)
    \/ \E p \in Procs : CsPrepare(p)
    \/ \E p \in Procs : CsCommit(p)
    \/ \E p \in Procs : LoSelect(p)
    \/ \E p \in Procs : LoGetUser(p)
    \/ \E p \in Procs : LoCommit(p)

SpecConc == Init /\ [][NextConc]_vars

----------------------------------------------------------------------------
(* Properties of SpecConc *)

(* C2: when the create_session calls of all callers, for one user, have    *)
(* committed, however their selects and commits interleaved, exactly one    *)
(* session row of that user has is_active = true.                           *)
C2_ExactlyOneActive ==
    \A uid \in DOMAIN users :
        (\A p \in Procs :
             /\ procs[p].pc = "done"
             /\ procs[p].op = "create_session"
             /\ procs[p].user_id = Some(uid))
            => Cardinality({i \in SessionsOf(uid) : sessions[i].is_active}) = 1

(* C7: a step of a logout_user call either leaves both tables as they are   *)
(* or is the call's commit, which returns True and after which the session  *)
(* row is inactive and the is_authenticated of the owning user the call     *)
(* loaded is false, nothing else being changed: no state of the tables      *)
(* shows one of the call's two changes without the other.                   *)
C7_LogoutCommitsTogether ==
    [][\A p \in Procs :
          (procs'[p] # procs[p] /\ procs'[p].op = "logout_user") =>
              IF procs[p].pc = "lo_loaded"
              THEN LET row == TheVal(procs[p].target)
                   IN /\ procs'[p].ok = Some(TRUE)
                      /\ ~sessions'[row.id].is_active
                      /\ procs[p].user # None =>
                             ~users'[row.user_id].is_authenticated
                      /\ \A i \in DOMAIN sessions \ {row.id} : sessions'[i] = sessions[i]
                      /\ \A u \in DOMAIN users \ {row.user_id} : users'[u] = users[u]
              ELSE UNCHANGED <<users, sessions>>]_vars

(* a caller whose logout_user returned True for a logged-in user: the row  *)
(* is inactive and the flag cleared                                         *)
C7_Witness ==
    \E p \in Procs, i \in DOMAIN sessions :
        /\ procs[p].pc = "done"
        /\ procs[p].op = "logout_user"
        /\ procs[p].ok = Some(TRUE)
        /\ ~sessions[i].is_active
        /\ sessions[i].user_id \in DOMAIN users
        /\ users[sessions[i].user_id].last_login # None
        /\ ~users[sessions[i].user_id].is_authenticated

----------------------------------------------------------------------------
(* Specification SpecReg: create_user run by concurrent callers.  The       *)
(* select of the existence check is one step and the commit of the insert   *)
(* another; the users table keeps username and email unique (unique=True).  *)

(* the store refuses a row whose username or email a committed row holds *)
UniqueViolation(U, username, email) ==
    \E i \in DOMAIN U : U[i].username = username \/ U[i].email = email

CuReady(p) == procs[p].pc \in {"idle", "done", "raised"}

(* create_user, lines 39-53: the existence check; when it finds no row the *)
(* password is hashed and the User built and added, in the caller's memory *)
CuSelect(p) ==
    \E reg \in Registrations, password \in Passwords, salt \in Salts :
        /\ CuReady(p)
        /\ procs' = [procs EXCEPT ![p] =
               IF ExistingUser(users, reg[1], reg[2]) # <<>>
               THEN Proc("done", "create_user")
               ELSE [Proc("cu_selected", "create_user") EXCEPT
                         !.pending = Some([username |-> reg[1],
                                           email |-> reg[2],
                                           password |-> password,
                                           salt |-> salt])]]
        /\ UNCHANGED <<users, sessions, now, clients>>

(* create_user, lines 54-56: the commit inserts the row and the call        *)
(* returns it, or the store refuses the row and the commit raises, which    *)
(* create_user does not catch                                               *)
CuCommit(p) ==
    /\ procs[p].pc = "cu_selected"
    /\ LET new == TheVal(procs[p].pending)
           user == NewUser(users, new.username, new.email, new.password, new.salt)
       IN IF UniqueViolation(users, new.username, new.email)
          THEN /\ procs' = [procs EXCEPT ![p] = Proc("raised", "create_user")]
               /\ UNCHANGED users
          ELSE /\ procs' = [procs EXCEPT ![p] =
                      [Proc("done", "create_user") EXCEPT !.user = Some(user)]]
               /\ users' = Append(users, user)
    /\ UNCHANGED <<sessions, now, clients>>

(* the users log in and are switched off and on while others register *)
NextReg ==
    \/ \E p \in Procs : CuSelect(p)
    \/ \E p \in Procs : CuCommit(p)
    \/ AuthenticateUser
    \/ SetUserActive

SpecReg == Init /\ [][NextReg]_vars

(* C13: when create_user calls with the same username or the same email    *)
(* run concurrently, the existence check of each before the commit of the   *)
(* other, no call ends by raising (the losing call returns None) and no     *)
(* state holds two rows with the colliding value.                           *)
C13_LoserReturnsNone ==
    /\ \A p \in Procs : procs[p].pc # "raised"
    /\ \A i, j \in DOMAIN users :
           i # j => /\ users[i].username # users[j].username
                    /\ users[i].email # users[j].email

----------------------------------------------------------------------------
(* The pages (auth_middleware.py, login.py, dashboard.py).  A handler's     *)
(* result holds the tables and the browser's storage afterwards, where it   *)
(* navigated (nav) and what it showed or returned.                          *)

LoginPath == "/login"

DashboardPath == "/dashboard"

(* request.url.path of the pages a wrapped function serves *)
Paths == {DashboardPath, "/reports"}

(* ui.context.client.request: absent, or a request with its path *)
Requests == {None} \cup {Some(p) : p \in Paths}

(* what the wrapped function returns when it is invoked *)
FuncResult == "page"

(* str.strip() on the texts typed into the form *)
Strip(text) ==
    CASE text = " alice " -> "alice"
      [] text = " " -> ""
      [] OTHER -> text

(* the texts typed as username and as password *)
TypedUsernames == Usernames \cup {" alice ", " "}

TypedPasswords == LoginPasswords \cup {""}

(* what the browsers submit: every typed username with a registered         *)
(* password, and one username with every typed password                     *)
TypedLogins == (TypedUsernames \X Passwords) \cup ({"alice"} \X TypedPasswords)

(* a lookup that takes the owner of the session without reading the        *)
(* owner's is_active                                                        *)
get_current_user_SkipsUserCheck(U, S, t, storage) ==
    IF Falsy(storage.session_token)
    THEN None
    ELSE LET user_session == ValidTarget(S, t, storage.session_token)
         IN IF user_session = None
            THEN None
            ELSE GetUser(U, TheVal(user_session).user_id)

(* auth_middleware.py, lines 12-18 *)
get_current_user(U, S, t, storage) ==
    IF Falsy(storage.session_token)
    THEN None
    ELSE validate_session(U, S, t, storage.session_token).ret

PageResult(ret, called, nav, storage) ==
    [ret |-> ret, called |-> called, nav |-> nav, storage |-> storage]

(* mutant: the wrapped function is invoked even after a denial *)
require_auth_CallsAnyway(U, S, t, storage, request) ==
    LET user == get_current_user(U, S, t, storage)
    IN IF user = None
       THEN PageResult(Some(FuncResult), TRUE, Some(LoginPath),
                       IF request # None
                       THEN [storage EXCEPT !.redirect_after_login = request]
                       ELSE storage)
       ELSE PageResult(Some(FuncResult), TRUE, None, storage)

(* mutant: a denial keeps the path recorded first *)
require_auth_KeepsFirst(U, S, t, storage, request) ==
    LET user == get_current_user(U, S, t, storage)
    IN IF user = None
       THEN PageResult(None, FALSE, Some(LoginPath),
                       IF request # None /\ storage.redirect_after_login = None
                       THEN [storage EXCEPT !.redirect_after_login = request]
                       ELSE storage)
       ELSE PageResult(Some(FuncResult), TRUE, None, storage)

(* auth_middleware.py, lines 25-34: the wrapper of require_auth *)
require_auth(U, S, t, storage, request) ==
    LET user == get_current_user(U, S, t, storage)
    IN IF user = None
       THEN PageResult(None, FALSE, Some(LoginPath),
                       IF request # None
                       THEN [storage EXCEPT !.redirect_after_login = request]
                       ELSE storage)
       ELSE PageResult(Some(FuncResult), TRUE, None, storage)

(* auth_middleware.py, lines 39-41 *)
login_user(storage, session_token) ==
    [storage EXCEPT !.session_token = Some(session_token)]

(* a logout that deletes the token and keeps the recorded path *)
logout_current_user_TokenOnly(storage) == Storage(None, storage.redirect_after_login)

(* auth_middleware.py, lines 44-49 *)
logout_current_user(storage) == Storage(None, None)

(* auth_middleware.py, lines 52-54: the value returned and the storage     *)
(* afterwards                                                               *)
get_redirect_url(storage) ==
    [ret |-> IF storage.redirect_after_login = None
             THEN DashboardPath
             ELSE TheVal(storage.redirect_after_login),
     storage |-> storage]

HandlerResult(U, S, storage, nav, error) ==
    [users |-> U, sessions |-> S, storage |-> storage, nav |-> nav, error |-> error]

(* a login that stores the token it is about to issue before it has       *)
(* checked the credentials                                                  *)
handle_login_StoresEarly(U, S, t, storage, username, password, session_token) ==
    LET early == login_user(storage, session_token)
    IN IF Strip(username) = "" \/ Strip(password) = ""
       THEN HandlerResult(U, S, early, None,
                          Some("Please enter both username and password"))
       ELSE LET auth == authenticate_user(U, S, t, Strip(username), password)
            IN IF auth.ret = None
               THEN HandlerResult(auth.users, auth.sessions, early, None,
                                  Some("Invalid username or password"))
               ELSE LET made == create_session(auth.users, auth.sessions, t,
                                               TheVal(auth.ret).id, session_token)
                        redirect == get_redirect_url(early)
                    IN HandlerResult(made.users, made.sessions, redirect.storage,
                                     Some(redirect.ret), None)

(* login.py, lines 78-119 *)
handle_login(U, S, t, storage, username, password, session_token) ==
    IF Strip(username) = "" \/ Strip(password) = ""
    THEN HandlerResult(U, S, storage, None,
                       Some("Please enter both username and password"))
    ELSE LET auth == authenticate_user(U, S, t, Strip(username), password)
         IN IF auth.ret = None
            THEN HandlerResult(auth.users, auth.sessions, storage, None,
                               Some("Invalid username or password"))
            ELSE LET made == create_session(auth.users, auth.sessions, t,
                                            TheVal(auth.ret).id, session_token)
                     stored == login_user(storage, TheVal(made.ret).session_token)
                     redirect == get_redirect_url(stored)
                 IN HandlerResult(made.users, made.sessions, redirect.storage,
                                  Some(redirect.ret), None)

(* dashboard.py, lines 179-196 *)
handle_logout(U, S, storage) ==
    LET out == IF Falsy(storage.session_token)
               THEN Result(FALSE, U, S)
               ELSE logout_user(U, S, storage.session_token)
    IN HandlerResult(out.users, out.sessions, logout_current_user(storage),
                     Some(LoginPath), None)

(* The pages.  A page shows something (shown) or navigates on (nav) *)
IndexPath == "/"

LoginForm == "login-form"

PagePaths == {IndexPath, DashboardPath, LoginPath}

View(shown, nav, storage) == [shown |-> shown, nav |-> nav, storage |-> storage]

(* startup.py, lines 15-24 *)
index(U, S, t, storage) ==
    LET user == get_current_user(U, S, t, storage)
    IN IF user # None
       THEN View(None, Some(DashboardPath), storage)
       ELSE View(None, Some(LoginPath), storage)

(* a login page that renders the form for everyone *)
login_page_AlwaysForm(U, S, t, storage) == View(Some(LoginForm), None, storage)

(* login.py, lines 13-18, and the form of lines 20-75 *)
login_page(U, S, t, storage) ==
    IF get_current_user(U, S, t, storage) # None
    THEN View(None, Some(DashboardPath), storage)
    ELSE View(Some(LoginForm), None, storage)

(* dashboard.py, lines 14-19: dashboard_page under require_auth *)
dashboard_page(U, S, t, storage) ==
    LET r == require_auth(U, S, t, storage, Some(DashboardPath))
    IN View(r.ret, r.nav, r.storage)

(* the routes of ui.page *)
OpenPage(U, S, t, storage, path) ==
    CASE path = IndexPath -> index(U, S, t, storage)
      [] path = LoginPath -> login_page(U, S, t, storage)
      [] path = DashboardPath -> dashboard_page(U, S, t, storage)

(* ui.navigate.to: the browser opens the page it is sent to *)
Follow(U, S, t, view) ==
    IF view.nav = None
    THEN view
    ELSE OpenPage(U, S, t, view.storage, TheVal(view.nav))

(* the browser opens a path and follows the navigations *)
Browse(U, S, t, storage, path) ==
    Follow(U, S, t, Follow(U, S, t, OpenPage(U, S, t, storage, path)))

----------------------------------------------------------------------------
(* Specification SpecWeb: the browsers open pages, log in and log out; one *)
(* handler runs at a time.                                                  *)

(* a browser asks for a page wrapped by require_auth *)
RequireAuth(c) ==
    \E request \in Requests :
        /\ clients' = [clients EXCEPT ![c] =
               require_auth(users, sessions, now, clients[c], request).storage]
        /\ UNCHANGED <<users, sessions, now, procs>>

HandleLogin(c) ==
    \E typed \in TypedLogins, session_token \in FreshTokens(sessions, procs) :
        /\ Len(sessions) < MaxSessions
        /\ LET r == handle_login(users, sessions, now, clients[c],
                                 typed[1], typed[2], session_token)
           IN /\ users' = r.users
              /\ sessions' = r.sessions
              /\ clients' = [clients EXCEPT ![c] = r.storage]
        /\ UNCHANGED <<now, procs>>

HandleLogout(c) ==
    /\ LET r == handle_logout(users, sessions, clients[c])
       IN /\ users' = r.users
          /\ sessions' = r.sessions
          /\ clients' = [clients EXCEPT ![c] = r.storage]
    /\ UNCHANGED <<now, procs>>

NextWeb ==
    \/ CreateUser
    \/ SetUserActive
    \/ Tick
    \/ \E c \in Clients : RequireAuth(c)
    \/ \E c \in Clients : HandleLogin(c)
    \/ \E c \in Clients : HandleLogout(c)

SpecWeb == Init /\ [][NextWeb]_vars

----------------------------------------------------------------------------
(* Specification SpecPages: the browsers open the three pages of the       *)
(* application, log in and log out; one handler runs at a time.             *)

OpenIndex(c) ==
    /\ clients' = [clients EXCEPT ![c] = index(users, sessions, now, clients[c]).storage]
    /\ UNCHANGED <<users, sessions, now, procs>>

OpenLoginPage(c) ==
    /\ clients' = [clients EXCEPT ![c] =
                      login_page(users, sessions, now, clients[c]).storage]
    /\ UNCHANGED <<users, sessions, now, procs>>

OpenDashboard(c) ==
    /\ clients' = [clients EXCEPT ![c] =
                      dashboard_page(users, sessions, now, clients[c]).storage]
    /\ UNCHANGED <<users, sessions, now, procs>>

NextPages ==
    \/ CreateUser
    \/ SetUserActive
    \/ Tick
    \/ \E c \in Clients : OpenIndex(c)
    \/ \E c \in Clients : OpenLoginPage(c)
    \/ \E c \in Clients : OpenDashboard(c)
    \/ \E c \in Clients : HandleLogin(c)
    \/ \E c \in Clients : HandleLogout(c)

SpecPages == Init /\ [][NextPages]_vars

----------------------------------------------------------------------------
(* Properties of SpecWeb *)

(* what get_current_user returns for browser c in the current state *)
CurrentUser(c) == get_current_user(users, sessions, now, clients[c])

(* browser c stores the token of an is_active, unexpired session whose     *)
(* user exists and is active                                                *)
HoldsValidSession(c) ==
    \E i \in DOMAIN sessions :
        /\ clients[c].session_token = TokenOf(i)
        /\ sessions[i].is_active
        /\ sessions[i].expires_at > now
        /\ sessions[i].user_id \in DOMAIN users
        /\ users[sessions[i].user_id].is_active

(* C19: the wrapper of require_auth invokes the wrapped function only when  *)
(* get_current_user() returns a user, that is, when the browser stores the  *)
(* token of a valid session; whenever get_current_user() returns None it    *)
(* navigates to /login, returns None and does not invoke the function.      *)
C19_GateDenies ==
    \A c \in Clients, request \in Requests :
        LET r == require_auth(users, sessions, now, clients[c], request)
        IN /\ r.called => (CurrentUser(c) # None /\ HoldsValidSession(c))
           /\ CurrentUser(c) = None =>
                  /\ r.nav = Some(LoginPath)
                  /\ r.ret = None
                  /\ ~r.called

(* one browser is logged in while the other stores a token that no longer  *)
(* validates                                                                *)
C19_Witness ==
    \E c, d \in Clients :
        /\ CurrentUser(c) # None
        /\ clients[d].session_token # None
        /\ CurrentUser(d) = None

(* C20: a denial by require_auth of a request that has a path leaves that   *)
(* path in the browser's redirect_after_login slot, whatever the slot held, *)
(* and leaves the token slot as it was; a second denial leaves the path of  *)
(* the second request only.  A step that records a path changes no row of   *)
(* the tables.                                                              *)
C20_DenialRecordsPath ==
    /\ [](\A c \in Clients, request \in Requests \ {None} :
             CurrentUser(c) = None =>
                 LET r == require_auth(users, sessions, now, clients[c], request)
                 IN /\ r.storage = Storage(clients[c].session_token, request)
                    /\ \A again \in Requests \ {None} :
                           require_auth(users, sessions, now, r.storage, again).storage
                               = Storage(clients[c].session_token, again))
    /\ [][\A c \in Clients :
             (/\ clients'[c].redirect_after_login # None
              /\ clients'[c].redirect_after_login # clients[c].redirect_after_login)
                 => /\ CurrentUser(c) = None
                    /\ clients'[c].session_token = clients[c].session_token
                    /\ users' = users
                    /\ sessions' = sessions]_vars

(* both browsers were denied, on different paths, one of them with a token *)
(* that no longer validates                                                 *)
C20_Witness ==
    \E c, d \in Clients :
        /\ clients[c].redirect_after_login = Some(DashboardPath)
        /\ clients[d].redirect_after_login = Some("/reports")
        /\ clients[d].session_token # None
        /\ CurrentUser(c) = None
        /\ CurrentUser(d) = None

----------------------------------------------------------------------------
(* Specification SpecHash: callers hash and verify passwords.  The inputs  *)
(* are drawn from bounded sets; a finished call keeps its arguments and     *)
(* what it returned.                                                        *)

(* the passwords hashed and tried; one of them holds the separator *)
HashPasswords == Passwords \cup {"secret2", "a:b"}

(* secrets.token_hex(16): hex strings *)
HexSalts == Salts \cup {"c0de"}

(* what hash_password can have stored *)
HashedForms == {hash_password(p, salt) : p \in HashPasswords, salt \in HexSalts}

(* stored forms that hash_password never wrote: no separator, the empty    *)
(* string, adjacent separators, a stored hash with one more field, and one  *)
(* with a single separator but a foreign digest                             *)
ForeignForms ==
    { <<"malformed_hash">>,
      <<>>,
      <<":", ":">>,
      hash_password("secret1", "5a17") \o <<":", "tail">>,
      <<"5a17", ":", "deadbeef">> }

StoredForms == HashedForms \cup ForeignForms

HashCall(password, password_hash) == [password |-> password, password_hash |-> password_hash]

HashPassword(p) ==
    /\ \E password \in HashPasswords, salt \in HexSalts :
          procs' = [procs EXCEPT ![p] =
                      [Proc("done", "hash_password") EXCEPT
                         !.pending = Some(HashCall(password, hash_password(password, salt)))]]
    /\ UNCHANGED <<users, sessions, now, clients>>

VerifyPassword(p) ==
    /\ \E password \in HashPasswords, password_hash \in StoredForms :
          procs' = [procs EXCEPT ![p] =
                      [Proc("done", "verify_password") EXCEPT
                         !.pending = Some(HashCall(password, password_hash)),
                         !.ok = Some(verify_password(password, password_hash))]]
    /\ UNCHANGED <<users, sessions, now, clients>>

NextHash ==
    \/ \E p \in Procs : HashPassword(p)
    \/ \E p \in Procs : VerifyPassword(p)

SpecHash == Init /\ [][NextHash]_vars

----------------------------------------------------------------------------
(* Properties of SpecHash *)

(* the number of separators in a stored form *)
Separators(form) == Cardinality({i \in DOMAIN form : form[i] = ":"})

Verified(p) == procs[p].op = "verify_password"

(* C25: a password verifies against its own hash and against no hash of a  *)
(* different password: for all passwords p, p2 of the bounded set and every *)
(* salt, verify_password(p, hash_password(p2)) is true exactly when p = p2, *)
(* and every finished verification against a stored hash returned that.    *)
C25_HashRoundTrip ==
    /\ \A p \in HashPasswords, p2 \in HashPasswords, salt \in HexSalts :
          verify_password(p, hash_password(p2, salt)) = (p = p2)
    /\ \A c \in Procs :
          Verified(c) =>
            LET call == TheVal(procs[c].pending)
            IN \A p2 \in HashPasswords, salt \in HexSalts :
                 call.password_hash = hash_password(p2, salt)
                   => procs[c].ok = Some(call.password = p2)

(* one caller verified the right password against a stored hash, the other *)
(* a different password against the same hash                               *)
C25_Witness ==
    \E c \in Procs, d \in Procs :
        /\ Verified(c) /\ Verified(d)
        /\ TheVal(procs[c].pending).password_hash \in HashedForms
        /\ TheVal(procs[c].pending).password_hash = TheVal(procs[d].pending).password_hash
        /\ TheVal(procs[c].pending).password # TheVal(procs[d].pending).password
        /\ procs[c].ok = Some(TRUE)
        /\ procs[d].ok = Some(FALSE)

(* C26: verify_password returns False, and so raises nothing, for every    *)
(* stored form that does not hold exactly one separator (none, or two or    *)
(* more), whatever the password.                                            *)
C26_MalformedIsFalse ==
    /\ \A password \in HashPasswords, form \in StoredForms :
          Separators(form) # 1 => verify_password(password, form) = FALSE
    /\ \A c \in Procs :
          (Verified(c) /\ Separators(TheVal(procs[c].pending).password_hash) # 1)
            => procs[c].ok = Some(FALSE)

(* one caller verified the password of a stored hash that carries one more *)
(* field, the other a password against a form without a separator          *)
C26_Witness ==
    \E c \in Procs, d \in Procs :
        /\ Verified(c) /\ Verified(d)
        /\ TheVal(procs[c].pending).password = "secret1"
        /\ TheVal(procs[c].pending).password_hash
              = hash_password("secret1", "5a17") \o <<":", "tail">>
        /\ Separators(TheVal(procs[d].pending).password_hash) = 0
        /\ procs[c].ok = Some(FALSE)
        /\ procs[d].ok = Some(FALSE)

----------------------------------------------------------------------------
(* Properties of Spec: the session rows *)

(* C27: every session create_session returns has is_active = true, the     *)
(* user_id of the argument and expires_at = the time of the call + 24       *)
(* hours, hence strictly between now + 23 h and now + 25 h; it is the row   *)
(* the call inserted, and every step that inserts a row inserts such a row. *)
C27_SessionAsIssued ==
    /\ [](\A user_id \in UserIds, session_token \in FreshTokens(sessions, procs) :
            LET r == create_session(users, sessions, now, user_id, session_token)
                session == TheVal(r.ret)
            IN /\ r.ret # None
               /\ session.is_active
               /\ session.user_id = user_id
               /\ session.session_token = session_token
               /\ session.expires_at = now + SESSION_HOURS
               /\ session.expires_at > now + 23
               /\ session.expires_at < now + 25
               /\ session = r.sessions[Len(r.sessions)]
               /\ Len(r.sessions) = Len(sessions) + 1)
    /\ [][Len(sessions') = Len(sessions) + 1 =>
            LET session == sessions'[Len(sessions')]
            IN /\ session.is_active
               /\ session.user_id \in UserIds
               /\ session.expires_at = now + SESSION_HOURS]_vars

(* a session issued after the clock has advanced, still as it was issued *)
C27_Witness ==
    \E i \in DOMAIN sessions :
        /\ now > 0
        /\ sessions[i].is_active
        /\ sessions[i].expires_at = now + SESSION_HOURS

(* C28: a session row once created is never removed, its id, user_id,      *)
(* session_token and expires_at never change, and its is_active only goes   *)
(* from true to false: the set of rows only grows.                          *)
C28_RowsOnlyGrow ==
    [][/\ Len(sessions') >= Len(sessions)
       /\ \A i \in DOMAIN sessions :
             /\ sessions'[i].id = sessions[i].id
             /\ sessions'[i].user_id = sessions[i].user_id
             /\ sessions'[i].session_token = sessions[i].session_token
             /\ sessions'[i].expires_at = sessions[i].expires_at
             /\ sessions'[i].is_active => sessions[i].is_active]_vars

(* one user's superseded session and the later one, logged out, both kept *)
C28_Witness ==
    \E i \in DOMAIN sessions, j \in DOMAIN sessions :
        /\ i < j
        /\ sessions[i].user_id = sessions[j].user_id
        /\ sessions[i].session_token # sessions[j].session_token
        /\ ~sessions[i].is_active
        /\ ~sessions[j].is_active
        /\ sessions[j].user_id \in DOMAIN users
        /\ ~users[sessions[j].user_id].is_authenticated

----------------------------------------------------------------------------
(* Properties of Spec: lazy expiry *)

(* an active row whose expires_at has passed *)
ExpiredActive(i) == sessions[i].is_active /\ sessions[i].expires_at <= now

(* the steps, by what they write: a session inserted for uid, a logout of  *)
(* one of uid's sessions, a successful authentication of uid                *)
CreatedFor(uid) ==
    /\ Len(sessions') = Len(sessions) + 1
    /\ sessions'[Len(sessions')].user_id = uid

LoggedOutOf(uid) ==
    /\ Len(sessions') = Len(sessions)
    /\ \E j \in SessionsOf(uid) : sessions[j].is_active /\ ~sessions'[j].is_active

AuthenticatedAs(uid) ==
    /\ sessions' = sessions
    /\ users'[uid].is_authenticated
    /\ users'[uid].last_login = Some(now)

(* the advance of time writes nothing, and an expired row reads as None *)
LazyExpiry ==
    /\ [](\A i \in DOMAIN sessions :
            ExpiredActive(i) =>
              /\ Validated(TokenOf(i)) = None
              /\ validate_session(users, sessions, now, TokenOf(i)).sessions = sessions
              /\ validate_session(users, sessions, now, TokenOf(i)).users = users)
    /\ [][now' # now => (users' = users /\ sessions' = sessions)]_vars

(* an expired row's is_active is cleared only by a create_session for its  *)
(* user or a logout_user of one of the user's sessions                      *)
ExpiredRowKept ==
    [][\A i \in DOMAIN sessions :
         (ExpiredActive(i) /\ ~sessions'[i].is_active)
           => (CreatedFor(sessions[i].user_id) \/ LoggedOutOf(sessions[i].user_id))]_vars

(* C30 as stated: expiry is lazy: the advance of time alone changes no     *)
(* stored field; a session whose expires_at has passed keeps is_active =    *)
(* true and its owner keeps is_authenticated unchanged until a later        *)
(* create_session or logout_user touches them, and validate_session of its  *)
(* token returns None.                                                      *)
C30_ExpiredUntouched ==
    /\ LazyExpiry
    /\ ExpiredRowKept
    /\ [][\A i \in DOMAIN sessions :
             LET uid == sessions[i].user_id
             IN (/\ ExpiredActive(i)
                 /\ uid \in DOMAIN users
                 /\ users'[uid].is_authenticated # users[uid].is_authenticated)
                  => (CreatedFor(uid) \/ LoggedOutOf(uid))]_vars

(* C30, amended: as above, but the owner's is_authenticated is written by  *)
(* a later authenticate_user (to true) or logout_user (to false), and by    *)
(* nothing else; create_session does not write it.                          *)
C30_LazyExpiry ==
    /\ LazyExpiry
    /\ ExpiredRowKept
    /\ [][\A i \in DOMAIN sessions :
             LET uid == sessions[i].user_id
             IN (/\ ExpiredActive(i)
                 /\ uid \in DOMAIN users
                 /\ users'[uid].is_authenticated # users[uid].is_authenticated)
                  => \/ (AuthenticatedAs(uid) /\ users'[uid].is_authenticated)
                     \/ (LoggedOutOf(uid) /\ ~users'[uid].is_authenticated)]_vars

(* an expired session still stored active, its owner still flagged, while  *)
(* its token validates to nothing                                           *)
C30_Witness ==
    \E i \in DOMAIN sessions :
        /\ ExpiredActive(i)
        /\ sessions[i].user_id \in DOMAIN users
        /\ users[sessions[i].user_id].is_active
        /\ users[sessions[i].user_id].is_authenticated
        /\ Validated(TokenOf(i)) = None

----------------------------------------------------------------------------
(* Properties of SpecPages: the token slot, login and logout *)

(* the session rows that carry a token *)
RowsWithToken(tok) == {i \in DOMAIN sessions : TokenOf(i) = tok}

(* get_current_user has nothing to return for a slot holding tok: the slot *)
(* is absent or empty, no row carries the token, the row is invalidated or  *)
(* superseded, the row has expired, or its owner is missing or inactive     *)
NothingToReturn(tok) ==
    \/ tok = None
    \/ tok = Some("")
    \/ RowsWithToken(tok) = {}
    \/ \E i \in RowsWithToken(tok) :
          \/ ~sessions[i].is_active
          \/ sessions[i].expires_at <= now
          \/ sessions[i].user_id \notin DOMAIN users
          \/ ~users[sessions[i].user_id].is_active

(* C21: get_current_user() returns None when the token slot is absent or   *)
(* empty, when the token matches no session, when the session is            *)
(* invalidated or superseded, when it has expired and when its owner is     *)
(* inactive, the same None in each case; in every other case it returns     *)
(* exactly the user validate_session returns for the stored token, the      *)
(* owner of the session.  Stated for what each browser stores and for       *)
(* every token argument of the state.                                       *)
C21_CurrentUserOrNone ==
    \A c \in Clients :
      \A tok \in HeldTokenArgs(sessions) \cup {clients[c].session_token} :
        LET storage == Storage(tok, clients[c].redirect_after_login)
            user == get_current_user(users, sessions, now, storage)
        IN IF NothingToReturn(tok)
           THEN user = None
           ELSE /\ user # None
                /\ user = validate_session(users, sessions, now, tok).ret
                /\ \E i \in RowsWithToken(tok) : user = Some(users[sessions[i].user_id])

(* one browser stores the token of a live session whose owner has been     *)
(* made inactive, the other is logged in                                    *)
C21_Witness ==
    \E c \in Clients, d \in Clients, i \in DOMAIN sessions :
        /\ clients[c].session_token = TokenOf(i)
        /\ sessions[i].is_active
        /\ sessions[i].expires_at > now
        /\ ~users[sessions[i].user_id].is_active
        /\ CurrentUser(c) = None
        /\ CurrentUser(d) # None

(* C22: after handle_logout (logout_user on the stored token, then         *)
(* logout_current_user) the browser's session_token and                     *)
(* redirect_after_login slots are both absent and the session that backed   *)
(* the token has is_active = false; get_current_user() returns None for a   *)
(* browser without a token, and a token enters an empty slot only in a      *)
(* login, which stores the token of the session it has just inserted.       *)
C22_LogoutClears ==
    /\ [](\A c \in Clients :
            LET r == handle_logout(users, sessions, clients[c])
            IN /\ r.storage.session_token = None
               /\ r.storage.redirect_after_login = None
               /\ r.nav = Some(LoginPath)
               /\ Len(r.sessions) = Len(sessions)
               /\ \A i \in RowsWithToken(clients[c].session_token) :
                     ~r.sessions[i].is_active
               /\ get_current_user(r.users, r.sessions, now, r.storage) = None)
    /\ [](\A c \in Clients : clients[c].session_token = None => CurrentUser(c) = None)
    /\ [][\A c \in Clients :
             /\ (clients[c].session_token # None /\ clients'[c].session_token = None)
                  => /\ clients'[c] = EmptyStorage
                     /\ \A i \in RowsWithToken(clients[c].session_token) :
                           ~sessions'[i].is_active
             /\ (clients[c].session_token = None /\ clients'[c].session_token # None)
                  => /\ Len(sessions') = Len(sessions) + 1
                     /\ clients'[c].session_token
                           = Some(sessions'[Len(sessions')].session_token)]_vars

(* every browser is logged out: no slot is left, and a session that was    *)
(* logged into and out of is stored inactive                                *)
C22_Witness ==
    /\ \A c \in Clients : clients[c] = EmptyStorage
    /\ \E i \in DOMAIN sessions :
          /\ ~sessions[i].is_active
          /\ ~users[sessions[i].user_id].is_authenticated
          /\ users[sessions[i].user_id].last_login # None

(* C23: get_redirect_url returns the path stored in the                    *)
(* redirect_after_login slot and clears the slot, or returns /dashboard if  *)
(* none was set; two consecutive calls with no denial in between return the *)
(* recorded path first and /dashboard second.                               *)
C23_RedirectConsumed ==
    \A c \in Clients :
        LET slot == clients[c].redirect_after_login
            first == get_redirect_url(clients[c])
            second == get_redirect_url(first.storage)
        IN /\ first.ret = IF slot = None THEN DashboardPath ELSE TheVal(slot)
           /\ first.storage.redirect_after_login = None
           /\ first.storage.session_token = clients[c].session_token
           /\ second.ret = DashboardPath

(* the typed texts that are blank *)
BlankTexts == {"", " "}

(* C24: handle_login stores a token only after authenticate_user returned  *)
(* a user and create_session returned a session for that user, and the      *)
(* token stored is that session's token; when a field is blank or           *)
(* authenticate_user returns None, no session row is created and the token  *)
(* slot is unchanged.  A step that puts a new token into a slot inserts the *)
(* session with that token, for a user authenticated in the same step.      *)
C24_TokenAfterSession ==
    /\ [](\A c \in Clients, username \in TypedUsernames, password \in TypedPasswords,
             session_token \in FreshTokens(sessions, procs) :
            LET r == handle_login(users, sessions, now, clients[c],
                                  username, password, session_token)
                blank == username \in BlankTexts \/ password \in BlankTexts
                auth == authenticate_user(users, sessions, now, Strip(username), password)
            IN IF blank \/ auth.ret = None
               THEN /\ r.sessions = sessions
                    /\ r.users = users
                    /\ r.storage = clients[c]
                    /\ r.nav = None
                    /\ r.error # None
               ELSE LET made == r.sessions[Len(r.sessions)]
                    IN /\ Len(r.sessions) = Len(sessions) + 1
                       /\ made.user_id = TheVal(auth.ret).id
                       /\ made.session_token = session_token
                       /\ made.is_active
                       /\ r.storage.session_token = Some(made.session_token)
                       /\ r.users = auth.users
                       /\ r.nav # None
                       /\ r.error = None)
    /\ [][\A c \in Clients :
             (clients'[c].session_token \notin {None, clients[c].session_token})
               => /\ Len(sessions') = Len(sessions) + 1
                  /\ LET made == sessions'[Len(sessions')]
                     IN /\ clients'[c].session_token = Some(made.session_token)
                        /\ made.is_active
                        /\ made.user_id \in DOMAIN users'
                        /\ users'[made.user_id].is_active
                        /\ users'[made.user_id].is_authenticated
                        /\ users'[made.user_id].last_login = Some(now)]_vars

(* a browser stores the token of the session issued at its owner's last    *)
(* login                                                                    *)
C24_Witness ==
    \E c \in Clients, i \in DOMAIN sessions :
        /\ clients[c].session_token = TokenOf(i)
        /\ sessions[i].is_active
        /\ users[sessions[i].user_id].is_authenticated
        /\ users[sessions[i].user_id].last_login # None
        /\ sessions[i].expires_at
              = TheVal(users[sessions[i].user_id].last_login) + SESSION_HOURS

----------------------------------------------------------------------------
(* Properties of SpecPages: the pages *)

(* where browser c ends when it opens path *)
Landing(c, path) == Browse(users, sessions, now, clients[c], path)

(* C29: the index page / navigates to /dashboard exactly when              *)
(* get_current_user() returns a user and to /login otherwise; the /login    *)
(* page navigates to /dashboard without rendering the form exactly when     *)
(* get_current_user() returns a user; a browser with no valid session that  *)
(* opens /, /dashboard or /login ends on the login form.                    *)
C29_PagesRoute ==
    \A c \in Clients :
        LET home == index(users, sessions, now, clients[c])
            login == login_page(users, sessions, now, clients[c])
        IN /\ home.shown = None
           /\ home.nav = Some(IF CurrentUser(c) # None THEN DashboardPath ELSE LoginPath)
           /\ (CurrentUser(c) # None) <=> (login.nav = Some(DashboardPath))
           /\ (CurrentUser(c) # None) <=> (login.shown = None)
           /\ (CurrentUser(c) = None) <=> (login.shown = Some(LoginForm) /\ login.nav = None)
           /\ CurrentUser(c) = None =>
                 \A path \in PagePaths :
                     /\ Landing(c, path).shown = Some(LoginForm)
                     /\ Landing(c, path).nav = None

(* one browser, logged in, is sent from /login to the dashboard; the other *)
(* stores the token of an expired session and is sent from / to the form    *)
C29_Witness ==
    \E c \in Clients, d \in Clients :
        /\ CurrentUser(c) # None
        /\ Landing(c, LoginPath).shown = Some(FuncResult)
        /\ \E i \in RowsWithToken(clients[d].session_token) :
              sessions[i].is_active /\ sessions[i].expires_at <= now
        /\ Landing(d, IndexPath).shown = Some(LoginForm)

----------------------------------------------------------------------------
(* Specification SpecLookup: the service calls that create and read users  *)
(* and sessions, with the two lookups, each call one atomic step.           *)

(* the ids asked for: the ids a user can have, one below and one above *)
LookupIds == 0..(Cardinality(Usernames) + 1)

(* the usernames asked for: the registered ones, one of them in another    *)
(* case, and one never registered                                           *)
LookupUsernames == Usernames \cup {"Alice", "carol"}

GetUserById ==
    \E user_id \in LookupIds :
        /\ LET r == get_user_by_id(users, sessions, user_id)
           IN users' = r.users /\ sessions' = r.sessions
        /\ UNCHANGED <<now, procs, clients>>

GetUserByUsername ==
    \E username \in LookupUsernames :
        /\ LET r == get_user_by_username(users, sessions, username)
           IN users' = r.users /\ sessions' = r.sessions
        /\ UNCHANGED <<now, procs, clients>>

NextLookup ==
    \/ CreateUser
    \/ AuthenticateUser
    \/ CreateSession
    \/ ValidateSession
    \/ SetUserActive
    \/ Tick
    \/ GetUserById
    \/ GetUserByUsername

SpecLookup == Init /\ [][NextLookup]_vars

----------------------------------------------------------------------------
(* Properties of SpecLookup *)

(* C31: get_user_by_id and get_user_by_username leave every User and       *)
(* UserSession row unchanged, return None for an id or a username that      *)
(* matches no user, and match the username exactly, case included:          *)
(* otherwise they return the user with that id, or with that very username. *)
C31_LookupsReadOnly ==
    /\ \A user_id \in LookupIds :
          LET r == get_user_by_id(users, sessions, user_id)
          IN /\ r.users = users
             /\ r.sessions = sessions
             /\ (r.ret = None) <=> (\A u \in UserRows : u.id # user_id)
             /\ r.ret # None => (TheVal(r.ret) \in UserRows /\ TheVal(r.ret).id = user_id)
    /\ \A username \in LookupUsernames :
          LET r == get_user_by_username(users, sessions, username)
          IN /\ r.users = users
             /\ r.sessions = sessions
             /\ (r.ret = None) <=> (\A u \in UserRows : u.username # username)
             /\ r.ret # None =>
                   (TheVal(r.ret) \in UserRows /\ TheVal(r.ret).username = username)

(* alice is registered and has a session: she is found by "alice" and by   *)
(* her id, and not by "Alice"                                               *)
C31_Witness ==
    /\ sessions # <<>>
    /\ \E u \in UserRows :
          /\ u.username = "alice"
          /\ get_user_by_username(users, sessions, "alice").ret = Some(u)
          /\ get_user_by_id(users, sessions, u.id).ret = Some(u)
    /\ get_user_by_username(users, sessions, "Alice").ret = None
    /\ get_user_by_username(users, sessions, "carol").ret = None

(* C35: a failed authenticate_user call (unknown username, inactive user   *)
(* or wrong password) changes no stored field: the user's last_login and    *)
(* is_authenticated keep their values and no session row is created or      *)
(* deactivated.  Hence last_login and a raised is_authenticated are written *)
(* only together, at the time of the call, for an active user.              *)
C35_FailedLoginWritesNothing ==
    /\ [](\A username \in LookupUsernames, password \in LoginPasswords :
            LET r == authenticate_user(users, sessions, now, username, password)
                failed == \/ \A u \in UserRows : u.username # username
                          \/ \E u \in UserRows : u.username = username /\ ~u.is_active
                          \/ \E u \in UserRows :
                                u.username = username /\ ~IsPasswordOf(password, u)
            IN /\ (r.ret = None) <=> failed
               /\ failed =>
                     /\ \A uid \in DOMAIN users :
                           /\ r.users[uid].last_login = users[uid].last_login
                           /\ r.users[uid].is_authenticated = users[uid].is_authenticated
                     /\ r.users = users
                     /\ Len(r.sessions) = Len(sessions)
                     /\ \A i \in DOMAIN sessions :
                           r.sessions[i].is_active = sessions[i].is_active
                     /\ r.sessions = sessions)
    /\ [][\A uid \in DOMAIN users :
             (\/ users'[uid].last_login # users[uid].last_login
              \/ (users'[uid].is_authenticated /\ ~users[uid].is_authenticated))
               => /\ users[uid].is_active
                  /\ users'[uid].is_authenticated
                  /\ users'[uid].last_login = Some(now)
                  /\ sessions' = sessions]_vars

(* a user who logged in earlier and holds a session can be tried with a    *)
(* wrong password, and an inactive user with the right one: both calls fail *)
C35_Witness ==
    \E u \in UserRows, v \in UserRows :
        /\ u.is_active /\ u.is_authenticated
        /\ u.last_login # None /\ TheVal(u.last_login) < now
        /\ \E i \in SessionsOf(u.id) : sessions[i].is_active
        /\ authenticate_user(users, sessions, now, u.username, "wrong-password").ret = None
        /\ ~v.is_active
        /\ \E password \in Passwords :
              /\ IsPasswordOf(password, v)
              /\ authenticate_user(users, sessions, now, v.username, password).ret = None

(* the owner of a session is missing or inactive *)
NoUsableUser(user_id) == user_id \notin DOMAIN users \/ ~users[user_id].is_active

C37_InactiveThenBack ==
    /\ [](\A uid \in DOMAIN users :
            ~users[uid].is_active =>
              /\ \A i \in SessionsOf(uid) :
                    LET r == validate_session(users, sessions, now, TokenOf(i))
                    IN r.ret = None /\ r.users = users /\ r.sessions = sessions
              /\ \A password \in LoginPasswords :
                    LET r == authenticate_user(users, sessions, now,
                                               users[uid].username, password)
                    IN r.ret = None /\ r.users = users /\ r.sessions = sessions)
    /\ [][\A uid \in DOMAIN users :
             users'[uid].is_active # users[uid].is_active =>
               /\ sessions' = sessions
               /\ users'[uid] = [users[uid] EXCEPT !.is_active = ~users[uid].is_active]
               /\ users'[uid].is_active =>
                     \A i \in SessionsOf(uid) :
                         (sessions[i].is_active /\ sessions[i].expires_at > now)
                           => validate_session(users', sessions', now', TokenOf(i)).ret
                                = Some(users'[uid])]_vars

(* a user who logged in, got a session and was then deactivated: some time *)
(* later the session is still stored active and unexpired, and the token    *)
(* validates to nothing                                                     *)
C37_Witness ==
    \E uid \in DOMAIN users, i \in DOMAIN sessions :
        /\ ~users[uid].is_active
        /\ users[uid].last_login # None
        /\ sessions[i].user_id = uid
        /\ sessions[i].is_active
        /\ sessions[i].expires_at > now
        /\ now > TheVal(users[uid].last_login)
        /\ Validated(TokenOf(i)) = None

(* C38: create_session(u) changes only session rows of user u: it modifies *)
(* no User row (not u's is_authenticated or last_login either) and leaves   *)
(* every session row of any other user as it is, so a session of another    *)
(* user that validated before the call validates after it; the rows of u it *)
(* changes are the active ones, written inactive.                           *)
C38_CreateSessionFrame ==
    /\ [](\A user_id \in UserIds, session_token \in FreshTokens(sessions, procs) :
            LET r == create_session(users, sessions, now, user_id, session_token)
            IN /\ r.users = users
               /\ \A i \in DOMAIN sessions :
                     IF sessions[i].user_id # user_id
                     THEN /\ r.sessions[i] = sessions[i]
                          /\ validate_session(r.users, r.sessions, now, TokenOf(i)).ret
                                = Validated(TokenOf(i))
                     ELSE r.sessions[i] = [sessions[i] EXCEPT !.is_active = FALSE])
    /\ [][Len(sessions') = Len(sessions) + 1 =>
            /\ users' = users
            /\ \A i \in DOMAIN sessions :
                  sessions[i].user_id # sessions'[Len(sessions')].user_id
                    => sessions'[i] = sessions[i]]_vars

(* two logged-in users, each with a valid session: the later               *)
(* create_session, for the one, left the session of the other valid         *)
C38_Witness ==
    \E i \in DOMAIN sessions, j \in DOMAIN sessions :
        /\ i < j
        /\ sessions[i].user_id # sessions[j].user_id
        /\ Validated(TokenOf(i)) # None
        /\ Validated(TokenOf(j)) # None
        /\ TheVal(Validated(TokenOf(i))).is_authenticated
        /\ TheVal(Validated(TokenOf(j))).is_authenticated

----------------------------------------------------------------------------
(* Properties of SpecPages: two browsers of one user *)

(* require_auth denies browser c whatever it requests *)
DeniedIn(U, S, c) ==
    \A request \in Requests :
        LET r == require_auth(U, S, now, clients[c], request)
        IN ~r.called /\ r.ret = None /\ r.nav = Some(LoginPath)

(* C32: with two browsers A and B holding tokens of the same user: after   *)
(* the user logs in on B (authenticate_user, create_session, login_user)    *)
(* while A still stores its older token, get_current_user() on A returns    *)
(* None and every operation wrapped by require_auth is denied on A, while   *)
(* get_current_user() on B returns the user.                                *)
C32_NewLoginSupersedes ==
    /\ [](\A a \in Clients, b \in Clients, typed \in TypedLogins,
             session_token \in FreshTokens(sessions, procs) :
            LET r == handle_login(users, sessions, now, clients[b],
                                  typed[1], typed[2], session_token)
            IN (/\ a # b
                /\ CurrentUser(a) # None
                /\ r.error = None
                /\ TheVal(CurrentUser(a)).username = Strip(typed[1]))
                 => /\ get_current_user(r.users, r.sessions, now, clients[a]) = None
                    /\ DeniedIn(r.users, r.sessions, a)
                    /\ get_current_user(r.users, r.sessions, now, r.storage)
                          = Some(r.users[TheVal(CurrentUser(a)).id]))
    /\ [](\A a \in Clients, b \in Clients :
            \A i \in RowsWithToken(clients[a].session_token),
               j \in RowsWithToken(clients[b].session_token) :
                (a # b /\ sessions[i].user_id = sessions[j].user_id /\ i < j)
                  => /\ CurrentUser(a) = None
                     /\ DeniedIn(users, sessions, a)
                     /\ HoldsValidSession(b)
                           => CurrentUser(b) = Some(users[sessions[j].user_id]))

(* browser a stores the user's older token, unexpired but superseded, and  *)
(* is refused; browser b, where the user logged in later, is served         *)
C32_Witness ==
    \E a \in Clients, b \in Clients, i \in DOMAIN sessions, j \in DOMAIN sessions :
        /\ a # b /\ i < j
        /\ clients[a].session_token = TokenOf(i)
        /\ clients[b].session_token = TokenOf(j)
        /\ sessions[i].user_id = sessions[j].user_id
        /\ ~sessions[i].is_active /\ sessions[i].expires_at > now
        /\ CurrentUser(a) = None
        /\ DeniedIn(users, sessions, a)
        /\ CurrentUser(b) = Some(users[sessions[j].user_id])

(* session row i has been superseded: it is inactive and its user has a    *)
(* newer session                                                            *)
Superseded(i) ==
    /\ ~sessions[i].is_active
    /\ \E j \in SessionsOf(sessions[i].user_id) : j > i

(* C33: a logout performed with a token that a newer session of the same   *)
(* user has superseded (logout_user returns False) leaves the user's newer  *)
(* session active and valid and the user's is_authenticated as it was: no   *)
(* row of either table changes, and only the slots of the browser that logs *)
(* out are cleared.                                                         *)
C33_StaleLogout ==
    /\ [](\A c \in Clients :
            \A i \in RowsWithToken(clients[c].session_token) :
              Superseded(i) =>
                LET r == handle_logout(users, sessions, clients[c])
                    uid == sessions[i].user_id
                IN /\ logout_user(users, sessions, clients[c].session_token).ret = FALSE
                   /\ r.storage = EmptyStorage
                   /\ r.users = users
                   /\ uid \in DOMAIN users =>
                         r.users[uid].is_authenticated = users[uid].is_authenticated
                   /\ \A j \in SessionsOf(uid) :
                         /\ r.sessions[j] = sessions[j]
                         /\ validate_session(r.users, r.sessions, now, TokenOf(j)).ret
                               = Validated(TokenOf(j)))
    /\ [][\A c \in Clients :
             (/\ clients'[c].session_token = None
              /\ \E i \in RowsWithToken(clients[c].session_token) : Superseded(i))
               => /\ users' = users
                  /\ sessions' = sessions
                  /\ clients'[c] = EmptyStorage
                  /\ \A d \in Clients \ {c} : clients'[d] = clients[d]]_vars

(* browser a stores a superseded token and a recorded path while browser b *)
(* is logged in as the same user: the logout of a is refused by             *)
(* logout_user and empties a's slots                                        *)
C33_Witness ==
    \E a \in Clients, b \in Clients, i \in DOMAIN sessions, j \in DOMAIN sessions :
        /\ a # b /\ i < j
        /\ clients[a].session_token = TokenOf(i)
        /\ clients[a].redirect_after_login # None
        /\ clients[b].session_token = TokenOf(j)
        /\ Superseded(i)
        /\ sessions[j].user_id = sessions[i].user_id
        /\ CurrentUser(b) # None
        /\ users[sessions[j].user_id].is_authenticated
        /\ logout_user(users, sessions, clients[a].session_token).ret = FALSE
        /\ handle_logout(users, sessions, clients[a]).storage = EmptyStorage
        /\ handle_logout(users, sessions, clients[a]).users = users

----------------------------------------------------------------------------
(* Properties of SpecConc: logout_user against create_session *)

(* the step is the commit of p's logout_user of a session of some user,     *)
(* which a create_session of q for that user, completed since p's select,   *)
(* has superseded: the two calls overlapped, the logout commits last        *)
LogoutCommitsLast(p, q) ==
    /\ procs[p].pc = "lo_loaded"
    /\ procs'[p].pc = "done"
    /\ ~sessions[TheVal(procs[p].target).id].is_active
    /\ procs[q].pc = "done"
    /\ procs[q].op = "create_session"
    /\ procs[q].user_id = Some(TheVal(procs[p].target).user_id)

(* the step is the commit of q's create_session for a user whose active    *)
(* session q has read and p has logged out since: the two calls overlapped, *)
(* create_session commits last                                              *)
SessionCommitsLast(p, q) ==
    /\ procs[q].pc = "cs_pending"
    /\ procs'[q].pc = "done"
    /\ procs[q].existing # {}
    /\ ActiveSessionIds(sessions, TheVal(procs[q].user_id)) = {}
    /\ procs[p].pc = "done"
    /\ procs[p].op = "logout_user"
    /\ procs[p].ok = Some(TRUE)

(* after the step: the tokens of the rows in ended do not validate, and    *)
(* uid has exactly one active session, which validates to uid               *)
NewSessionOnly(uid, ended) ==
    /\ \A i \in ended :
          validate_session(users', sessions', now',
                           Some(sessions[i].session_token)).ret = None
    /\ Cardinality(ActiveSessionIds(sessions', uid)) = 1
    /\ \A i \in ActiveSessionIds(sessions', uid) :
          /\ i \notin ended
          /\ uid \in DOMAIN users' =>
                validate_session(users', sessions', now',
                                 Some(sessions'[i].session_token)).ret = Some(users'[uid])

(* after the step a user who has logged in is flagged is_authenticated *)
FlagKept(uid) ==
    (uid \in DOMAIN users' /\ users'[uid].last_login # None)
      => users'[uid].is_authenticated

(* the first two parts of C34: they hold *)
RaceLeavesNewSession ==
    [][\A p \in Procs, q \in Procs :
         /\ (p # q /\ LogoutCommitsLast(p, q))
              => NewSessionOnly(TheVal(procs[p].target).user_id,
                                {TheVal(procs[p].target).id})
         /\ (p # q /\ SessionCommitsLast(p, q))
              => NewSessionOnly(TheVal(procs[q].user_id), procs[q].existing)]_vars

(* C34: when logout_user(t) for user u's active session and                *)
(* create_session(u) run concurrently, their reads and commits interleaved, *)
(* then after both have completed the token t does not validate, the        *)
(* session create_session returned is the only active session of u and      *)
(* validates to u, and u.is_authenticated is not left false while that new  *)
(* session is valid.                                                        *)
C34_LogoutRacesLogin ==
    /\ RaceLeavesNewSession
    /\ [][\A p \in Procs, q \in Procs :
             /\ (p # q /\ LogoutCommitsLast(p, q))
                  => FlagKept(TheVal(procs[p].target).user_id)
             /\ (p # q /\ SessionCommitsLast(p, q))
                  => FlagKept(TheVal(procs[q].user_id))]_vars

====
